---- MODULE Spec2Model ----
(***************************************************************************)
(* Model of src/report/script.js: the delegated click listener of the      *)
(* report page, with its two handlers hide_row (row-pair toggle) and       *)
(* button (global expand/collapse).  The DOM attributes are the state.     *)
(* Identifiers are sequences of one-character strings, so that the regular *)
(* expression, the split, Number() and the string concatenation of the     *)
(* source are computed rather than assumed.                                *)
(***************************************************************************)
EXTENDS Integers, Sequences, FiniteSets, TLC

\* Largest number of data rows result-table-row-0..(n-1) of a modelled page.
MaxRows == 4
\* Largest number of rows of the table that carry no row identifier.
MaxHeaderRows == 1
\* Largest number of data rows of the table whose identifier is not on the page.
MaxMissing == 1

VARIABLES
    nrows,      \* data rows of the table, meant as result-table-row-0 .. (nrows-1)
    missing,    \* indexes among them whose row carries no such identifier
    header,     \* rows of the result table that are not data rows
    cls,        \* element -> value of its class attribute
    sty,        \* element -> value of its style attribute
    menuText,   \* textContent of main-menu
    fault,      \* the last click's handler threw (TypeError on null)
    lookups,    \* identifiers button passed to getElementById in the last click
    prev1,      \* the last click: its target and the page before it
    prev2,      \* the click before the last one, likewise
    menuParity, \* number of clicks on main-menu so far, modulo 2
    touched,    \* even N whose pair a row click on N or a menu click has written
    sinceMenu   \* the page the last completed menu click left, and the summary
                \* rows clicked once each since; ok is FALSE after any other click

vars == <<nrows, missing, header, cls, sty, menuText, fault, lookups, prev1, prev2, menuParity, touched, sinceMenu>>

----------------------------------------------------------------------------
\* Attribute values and strings of the source.

\* getAttribute of an attribute that is not set: null
NoAttr == "<null>"
RowHide == "row-hide"
NullStr == "Null"
Border == "border-left: 5px solid green;"
Expand == "Expand"
Collapse == "Collapse"

Digits == <<"0", "1", "2", "3", "4", "5", "6", "7", "8", "9">>
IsDigit(c) == \E k \in 1..Len(Digits) : Digits[k] = c
DigitVal(c) == (CHOOSE k \in 1..Len(Digits) : Digits[k] = c) - 1

\* "result-table-row-"
RowPrefix == <<"r","e","s","u","l","t","-","t","a","b","l","e","-","r","o","w","-">>
\* "main-menu"
MainMenuId == <<"m","a","i","n","-","m","e","n","u">>
\* an identifier of the page that the script does not know
OtherId == <<"f","o","o","t","e","r","-","1">>
\* getAttribute("id") of an element without id: null
NullId == <<"<null>">>
\* String(null), what RegExp.test makes of null
NullAsString == <<"n","u","l","l">>

----------------------------------------------------------------------------
\* Elements of the page.

Row(n) == <<"row", n>>
Menu == <<"menu", 0>>
\* an element whose id is the bare prefix "result-table-row-"
Bare == <<"bare", 0>>
Other == <<"other", 0>>
NoIdEl == <<"noid", 0>>
\* getElementById found nothing: null
NullEl == <<"null", 0>>
\* no click yet
NoTarget == <<"none", 0>>

\* indexes n for which an element result-table-row-n is on the page
Present == (0..(nrows - 1)) \ missing
Rows == {Row(n) : n \in Present}
Elements == Rows \cup {Menu, Bare, Other, NoIdEl}

\* Number(n) appended to a string: the decimal digits of n >= 0
RECURSIVE NumberToString(_)
NumberToString(n) ==
    IF n < 10 THEN <<Digits[n + 1]>>
    ELSE NumberToString(n \div 10) \o <<Digits[(n % 10) + 1]>>

RowId(n) == RowPrefix \o NumberToString(n)

getAttributeId(e) ==
    CASE e[1] = "row" -> RowId(e[2])
      [] e = Menu -> MainMenuId
      [] e = Bare -> RowPrefix
      [] e = Other -> OtherId
      [] OTHER -> NullId

getElementById(id) ==
    IF \E e \in Elements : getAttributeId(e) = id
    THEN CHOOSE e \in Elements : getAttributeId(e) = id
    ELSE NullEl

\* document.getElementsByClassName("result-table")[0].rows.length
tableRowsLength == header + nrows
----------------------------------------------------------------------------
\* The script.  A page value d is a record
\*   [cls, sty, text, fault, lookups]
\* threaded through the statements of one click.

\* /^result-table-row-\d*$/.test(id); test() converts its argument to a string
isTableId(id) ==
    LET str == IF id = NullId THEN NullAsString ELSE id
    IN  /\ Len(str) >= Len(RowPrefix)
        /\ SubSeq(str, 1, Len(RowPrefix)) = RowPrefix
        /\ \A k \in (Len(RowPrefix) + 1)..Len(str) : IsDigit(str[k])

\* element.split("-").at(-1): the text after the last hyphen
LastSegment(str) ==
    LET hyphens == {k \in 1..Len(str) : str[k] = "-"}
    IN  IF hyphens = {} THEN str
        ELSE SubSeq(str, (CHOOSE k \in hyphens : \A j \in hyphens : j <= k) + 1, Len(str))

\* Number(str) of a string of decimal digits; Number("") is 0
RECURSIVE ToNumber(_)
ToNumber(str) ==
    IF str = <<>> THEN 0
    ELSE ToNumber(SubSeq(str, 1, Len(str) - 1)) * 10 + DigitVal(str[Len(str)])

\* Variant: the parity test left out, every row number toggles.
IsEvenRowNumber_Any(row_number) == row_number >= 0

\* row_number % 2 == 0
IsEvenRowNumber(row_number) == row_number % 2 = 0

\* Variant: the show branch forgets the border.
TogglePair_NoBorder(d, row_even, row_odd) ==
    IF d.cls[row_odd] # RowHide
    THEN [d EXCEPT !.cls[row_odd] = RowHide, !.sty[row_even] = NullStr]
    ELSE [d EXCEPT !.cls[row_odd] = NullStr, !.sty[row_even] = NullStr]

\* Variant: the test is == instead of !=.
TogglePair_Inverted(d, row_even, row_odd) ==
    IF d.cls[row_odd] = RowHide
    THEN [d EXCEPT !.cls[row_odd] = RowHide, !.sty[row_even] = NullStr]
    ELSE [d EXCEPT !.cls[row_odd] = NullStr, !.sty[row_even] = Border]

\* Variant: the two style values exchanged, the border marks a hidden detail.
TogglePair_SwappedStyle(d, row_even, row_odd) ==
    IF d.cls[row_odd] # RowHide
    THEN [d EXCEPT !.cls[row_odd] = RowHide, !.sty[row_even] = Border]
    ELSE [d EXCEPT !.cls[row_odd] = NullStr, !.sty[row_even] = NullStr]

\* lines 11-17: the toggle of one pair, both elements at hand
TogglePair(d, row_even, row_odd) ==
    IF d.cls[row_odd] # RowHide
    THEN [d EXCEPT !.cls[row_odd] = RowHide, !.sty[row_even] = NullStr]
    ELSE [d EXCEPT !.cls[row_odd] = NullStr, !.sty[row_even] = Border]

\* Variant: the clicked row's style is written before the detail row is read.
LookupAndToggle_WriteFirst(d, row_even, row_number) ==
    LET row_odd == getElementById(RowPrefix \o NumberToString(row_number + 1))
    IN  IF row_odd = NullEl
        THEN [d EXCEPT !.sty[row_even] = NullStr, !.fault = TRUE]
        ELSE TogglePair(d, row_even, row_odd)

\* lines 10-17: look the detail row up, then toggle; a null row_odd throws at
\* row_odd.getAttribute, before any attribute is written
LookupAndToggle(d, row_even, row_number) ==
    LET row_odd == getElementById(RowPrefix \o NumberToString(row_number + 1))
    IN  IF row_odd = NullEl THEN [d EXCEPT !.fault = TRUE]
        ELSE TogglePair(d, row_even, row_odd)

hide_row(d, row_even) ==
    LET element == getAttributeId(row_even)
    IN  IF isTableId(element)
        THEN LET row_number == ToNumber(LastSegment(element))
             IN  IF IsEvenRowNumber(row_number)
                 THEN LookupAndToggle(d, row_even, row_number)
                 ELSE d
        ELSE d

\* Variant: both rows are looked up before either is written.
LoopBody_CheckFirst(d, i, oddClass, evenStyle) ==
    LET oddId == RowPrefix \o NumberToString(i)
        evenId == RowPrefix \o NumberToString(i - 1)
        row_odd == getElementById(oddId)
        row_even == getElementById(evenId)
    IN  IF row_odd = NullEl
        THEN [d EXCEPT !.lookups = @ \o <<oddId>>, !.fault = TRUE]
        ELSE IF row_even = NullEl
        THEN [d EXCEPT !.lookups = @ \o <<oddId, evenId>>, !.fault = TRUE]
        ELSE [d EXCEPT !.lookups = @ \o <<oddId, evenId>>,
                       !.cls[row_odd] = oddClass, !.sty[row_even] = evenStyle]

\* One pass of a for loop of button: row i gets class oddClass, row i-1 gets
\* style evenStyle.  A null element throws at its setAttribute and the
\* attributes written so far stay.
LoopBody(d, i, oddClass, evenStyle) ==
    LET oddId == RowPrefix \o NumberToString(i)
        evenId == RowPrefix \o NumberToString(i - 1)
        row_odd == getElementById(oddId)
        row_even == getElementById(evenId)
    IN  IF row_odd = NullEl
        THEN [d EXCEPT !.lookups = @ \o <<oddId>>, !.fault = TRUE]
        ELSE IF row_even = NullEl
        THEN [d EXCEPT !.lookups = @ \o <<oddId, evenId>>,
                       !.cls[row_odd] = oddClass, !.fault = TRUE]
        ELSE [d EXCEPT !.lookups = @ \o <<oddId, evenId>>,
                       !.cls[row_odd] = oddClass, !.sty[row_even] = evenStyle]

\* Variant: the expand loop writes row-hide.
RECURSIVE ExpandLoop_Hide(_, _)
ExpandLoop_Hide(d, i) ==
    IF i > 0
    THEN LET d1 == LoopBody(d, i, RowHide, Border)
         IN  IF d1.fault THEN d1 ELSE ExpandLoop_Hide(d1, i - 2)
    ELSE d

\* for (let i = odd_rows; i > 0; i = i - 2), label was "Expand"
RECURSIVE ExpandLoop(_, _)
ExpandLoop(d, i) ==
    IF i > 0
    THEN LET d1 == LoopBody(d, i, NullStr, Border)
         IN  IF d1.fault THEN d1 ELSE ExpandLoop(d1, i - 2)
    ELSE d

\* Variant: the collapse loop stops at i > 1 and leaves the first pair out.
RECURSIVE CollapseLoop_StopEarly(_, _)
CollapseLoop_StopEarly(d, i) ==
    IF i > 1
    THEN LET d1 == LoopBody(d, i, RowHide, NullStr)
         IN  IF d1.fault THEN d1 ELSE CollapseLoop_StopEarly(d1, i - 2)
    ELSE d

\* for (let i = odd_rows; i > 0; i = i - 2), label was not "Expand"
RECURSIVE CollapseLoop(_, _)
CollapseLoop(d, i) ==
    IF i > 0
    THEN LET d1 == LoopBody(d, i, RowHide, NullStr)
         IN  IF d1.fault THEN d1 ELSE CollapseLoop(d1, i - 2)
    ELSE d

\* Variant: one more row taken off the count.
OddRows_SkipHeader == tableRowsLength - 2

\* odd_rows = ...rows.length-1
OddRows == tableRowsLength - 1

\* Variant: the label is written after the loop, so a throwing loop keeps it.
ToggleAll_TextLast(d) ==
    IF d.text = Expand
    THEN LET d1 == ExpandLoop(d, tableRowsLength - 1)
         IN  IF d1.fault THEN d1 ELSE [d1 EXCEPT !.text = Collapse]
    ELSE LET d1 == CollapseLoop(d, tableRowsLength - 1)
         IN  IF d1.fault THEN d1 ELSE [d1 EXCEPT !.text = Expand]

\* lines 25-44: the body for a click on main-menu
ToggleAll(d) ==
    IF d.text = Expand
    THEN ExpandLoop([d EXCEPT !.text = Collapse], OddRows)
    ELSE CollapseLoop([d EXCEPT !.text = Expand], OddRows)

\* Variant: the identifier test of button lets every identified element through.
button_AnyId(d, target) ==
    LET element == getAttributeId(target)
    IN  IF element # NullId THEN ToggleAll(d) ELSE d

button(d, target) ==
    LET element == getAttributeId(target)
    IN  IF element = MainMenuId THEN ToggleAll(d) ELSE d

\* The click listener: hide_row(target); button(target);  an exception in
\* hide_row ends the listener.
Listener(d, target) ==
    LET d1 == hide_row(d, target)
    IN  IF d1.fault THEN d1 ELSE button(d1, target)

----------------------------------------------------------------------------
\* The page as a state machine: one action, the click on an element.

Page == [cls |-> cls, sty |-> sty, text |-> menuText]

DetailRows == {r \in Rows : r[2] % 2 = 1}

\* the present pairs a click on target with outcome d has written: the pair
\* of the clicked summary row (lines 11-17), and every pair a pass of a loop
\* of button went through (lines 30-33, 39-42)
WrittenPairs(d, target) ==
    {N \in Present :
        /\ N % 2 = 0 /\ N + 1 \in Present
        /\ \/ target = Row(N)
           \/ \E k \in 1..(Len(d.lookups) - 1) :
                 d.lookups[k] = RowId(N + 1) /\ d.lookups[k + 1] = RowId(N)}

\* no completed menu click to refer to
NoMenuClick == [ok |-> FALSE, page |-> [cls |-> <<>>, sty |-> <<>>, text |-> NoAttr], clicked |-> {}]

\* sinceMenu after a click on target with outcome d
SinceMenuAfter(d, target) ==
    IF target = Menu
    THEN IF d.fault THEN NoMenuClick
         ELSE [ok |-> TRUE, page |-> [cls |-> d.cls, sty |-> d.sty, text |-> d.text],
               clicked |-> {}]
    ELSE IF /\ sinceMenu.ok /\ target \in Rows /\ target[2] % 2 = 0
            /\ target[2] \notin sinceMenu.clicked
         THEN [sinceMenu EXCEPT !.clicked = @ \cup {target[2]}]
         ELSE NoMenuClick

Init ==
    /\ nrows \in 0..MaxRows
    /\ missing \in {m \in SUBSET (0..(nrows - 1)) : Cardinality(m) <= MaxMissing}
    /\ header \in 0..MaxHeaderRows
    /\ \E hidden \in SUBSET DetailRows :
          cls = [e \in Elements |-> IF e \in hidden THEN RowHide ELSE NoAttr]
    /\ sty = [e \in Elements |-> NoAttr]
    /\ menuText = Expand
    /\ fault = FALSE
    /\ lookups = <<>>
    /\ prev1 = [target |-> NoTarget, page |-> Page]
    /\ prev2 = [target |-> NoTarget, page |-> Page]
    /\ menuParity = 0
    /\ touched = {}
    /\ sinceMenu = NoMenuClick

Click(target) ==
    \E d \in {Listener([cls |-> cls, sty |-> sty, text |-> menuText,
                       fault |-> FALSE, lookups |-> <<>>], target)} :
        /\ cls' = d.cls
        /\ sty' = d.sty
        /\ menuText' = d.text
        /\ fault' = d.fault
        /\ lookups' = d.lookups
        /\ prev1' = [target |-> target, page |-> Page]
        /\ prev2' = prev1
        /\ menuParity' = IF target = Menu THEN 1 - menuParity ELSE menuParity
        /\ touched' = touched \cup WrittenPairs(d, target)
        /\ sinceMenu' = SinceMenuAfter(d, target)
        /\ UNCHANGED <<nrows, missing, header>>

Next == \E target \in Elements : Click(target)

Spec == Init /\ [][Next]_vars

TypeOK ==
    /\ nrows \in 0..MaxRows
    /\ missing \subseteq 0..(nrows - 1)
    /\ header \in 0..MaxHeaderRows
    /\ cls \in [Elements -> {NoAttr, RowHide, NullStr}]
    /\ sty \in [Elements -> {NoAttr, NullStr, Border}]
    /\ fault \in BOOLEAN
----------------------------------------------------------------------------
\* Vocabulary of the properties.

\* row n carries the hidden class in page p
Hidden(p, n) == p.cls[Row(n)] = RowHide
\* row n carries the green left border in page p
Bordered(p, n) == p.sty[Row(n)] = Border
\* summary row N and its detail row N+1 are both on the page
PairPresent(N) == N \in Present /\ N % 2 = 0 /\ N + 1 \in Present
\* summary row N is on the page and its detail row is not
SiblingMissing(N) == N \in Present /\ N % 2 = 0 /\ N + 1 \notin Present
\* the rows of the table are exactly result-table-row-0..K with K odd
\* (complete pairs and no other row in the table)
ExactPairs == header = 0 /\ nrows % 2 = 0 /\ missing = {}
\* one header row, then result-table-row-0..K with K odd
HeaderAndPairs == header = 1 /\ nrows % 2 = 0 /\ nrows > 0 /\ missing = {}
\* the border of row N stands for "detail row N+1 is shown"
Aligned(p, N) == Bordered(p, N) <=> ~Hidden(p, N + 1)
OddIndexes == {n \in Present : n % 2 = 1}
EvenIndexes == {n \in Present : n % 2 = 0}
SamePage == Page = prev1.page

----------------------------------------------------------------------------
\* C1 as stated: for every even N with row N+1 present and every starting
\* state of the pair, a click on row N flips the hidden state of row N+1 and
\* the border of row N, and a second consecutive click restores both.
C1_RoundTripAnyStart ==
    \A N \in 0..(nrows - 1) :
        (PairPresent(N) /\ prev1.target = Row(N)) =>
            /\ Hidden(Page, N + 1) # Hidden(prev1.page, N + 1)
            /\ Bordered(Page, N) # Bordered(prev1.page, N)
            /\ (prev2.target = Row(N) =>
                    /\ Hidden(Page, N + 1) = Hidden(prev2.page, N + 1)
                    /\ Bordered(Page, N) = Bordered(prev2.page, N))

\* C1 amended: a click on even row N with row N+1 present always flips the
\* hidden state of row N+1, and a second consecutive click restores it; the
\* border of row N flips and is restored as well when, before the first click,
\* row N was bordered exactly when row N+1 was not hidden.
C1_RoundTrip ==
    \A N \in 0..(nrows - 1) :
        (PairPresent(N) /\ prev1.target = Row(N)) =>
            /\ ~fault
            /\ Hidden(Page, N + 1) # Hidden(prev1.page, N + 1)
            /\ (Aligned(prev1.page, N) =>
                    Bordered(Page, N) # Bordered(prev1.page, N))
            /\ (prev2.target = Row(N) =>
                    /\ Hidden(Page, N + 1) = Hidden(prev2.page, N + 1)
                    /\ (Aligned(prev2.page, N) =>
                            Bordered(Page, N) = Bordered(prev2.page, N)))

C1_Witness ==
    \E N \in 0..(nrows - 1) :
        /\ PairPresent(N) /\ prev1.target = Row(N) /\ prev2.target = Row(N)
        /\ Aligned(prev2.page, N) /\ Bordered(prev2.page, N)
        /\ Bordered(Page, N) /\ ~Hidden(Page, N + 1)

\* C2 as stated (on a table of complete pairs): a click on main-menu while
\* its text is "Expand" sets the text to "Collapse" and leaves every odd row
\* with class row-hide and every even row with the border.
C2_ExpandHidesAll ==
    (ExactPairs /\ prev1.target = Menu /\ prev1.page.text = Expand) =>
        /\ menuText = Collapse
        /\ \A n \in OddIndexes : Hidden(Page, n)
        /\ \A n \in EvenIndexes : Bordered(Page, n)

\* C2 amended: a click on main-menu while its text is "Expand" sets the text
\* to "Collapse"; on a table whose rows are exactly result-table-row-0..K, K
\* odd, it leaves every odd row with class "Null" (not hidden) and every even
\* row with the border.
C2_ExpandShowsAll ==
    (prev1.target = Menu /\ prev1.page.text = Expand) =>
        /\ menuText = Collapse
        /\ ExactPairs =>
              /\ ~fault
              /\ \A n \in OddIndexes : cls[Row(n)] = NullStr
              /\ \A n \in EvenIndexes : Bordered(Page, n)

C2_Witness ==
    /\ ExactPairs /\ nrows >= 4
    /\ prev1.target = Menu /\ prev1.page.text = Expand
    /\ Hidden(prev1.page, 1) /\ ~Hidden(prev1.page, 3)
    /\ menuText = Collapse /\ ~Hidden(Page, 1) /\ Bordered(Page, 2)

\* C3 as stated (on a table of complete pairs): a click on main-menu while
\* its text is "Collapse" sets the text to "Expand", and afterwards no odd row
\* carries row-hide and no even row carries the border.
C3_CollapseClearsAll ==
    (ExactPairs /\ prev1.target = Menu /\ prev1.page.text = Collapse) =>
        /\ menuText = Expand
        /\ \A n \in OddIndexes : ~Hidden(Page, n)
        /\ \A n \in EvenIndexes : ~Bordered(Page, n)

\* C3 amended: a click on main-menu while its text is "Collapse" sets the
\* text to "Expand"; on a table whose rows are exactly result-table-row-0..K,
\* K odd, afterwards every odd row carries row-hide and every even row has
\* style "Null" (no border).
C3_CollapseHidesAll ==
    (prev1.target = Menu /\ prev1.page.text = Collapse) =>
        /\ menuText = Expand
        /\ ExactPairs =>
              /\ ~fault
              /\ \A n \in OddIndexes : Hidden(Page, n)
              /\ \A n \in EvenIndexes : sty[Row(n)] = NullStr

C3_Witness ==
    /\ ExactPairs /\ nrows >= 4
    /\ prev1.target = Menu /\ prev1.page.text = Collapse
    /\ Hidden(prev1.page, 1) /\ ~Hidden(prev1.page, 3)
    /\ menuText = Expand /\ Hidden(Page, 3) /\ ~Bordered(Page, 2)

\* C4: on a click of even row N with row N+1 present, if row N+1 did not
\* carry row-hide it now does and row N has no green border; otherwise row
\* N+1 no longer carries row-hide and row N has the green border.
C4_ToggleDirection ==
    \A N \in 0..(nrows - 1) :
        (PairPresent(N) /\ prev1.target = Row(N)) =>
            IF ~Hidden(prev1.page, N + 1)
            THEN Hidden(Page, N + 1) /\ ~Bordered(Page, N)
            ELSE ~Hidden(Page, N + 1) /\ sty[Row(N)] = Border

C4_Witness ==
    \E N \in 0..(nrows - 1) :
        /\ PairPresent(N) /\ prev1.target = Row(N)
        /\ Hidden(prev1.page, N + 1) /\ ~Bordered(prev1.page, N)
        /\ ~Hidden(Page, N + 1) /\ Bordered(Page, N)

\* C5 as stated: after a toggle of pair N, and after a main-menu click on a
\* table of complete pairs, row N has the green border exactly when row N+1
\* carries row-hide.
C5_BorderMeansHidden ==
    \A N \in 0..(nrows - 1) :
        (PairPresent(N) /\ (prev1.target = Row(N) \/ (prev1.target = Menu /\ ExactPairs))) =>
            (Bordered(Page, N) <=> Hidden(Page, N + 1))

\* C5 amended: after a toggle of pair N, and after a main-menu click on a
\* table whose rows are exactly result-table-row-0..K (K odd), row N has the
\* green border exactly when row N+1 does NOT carry row-hide; clicking row N
\* when row N+1 is visible gives row N+1 class row-hide and row N style
\* "Null", and clicking again sets row N+1's class to "Null" and row N's
\* style to the green border.
C5_BorderMeansShown ==
    \A N \in 0..(nrows - 1) :
        /\ (PairPresent(N) /\ (prev1.target = Row(N) \/ (prev1.target = Menu /\ ExactPairs))) =>
              (Bordered(Page, N) <=> ~Hidden(Page, N + 1))
        /\ (PairPresent(N) /\ prev1.target = Row(N) /\ ~Hidden(prev1.page, N + 1)) =>
              (cls[Row(N + 1)] = RowHide /\ sty[Row(N)] = NullStr)
        /\ (PairPresent(N) /\ prev1.target = Row(N) /\ prev2.target = Row(N)
                /\ ~Hidden(prev2.page, N + 1)) =>
              (cls[Row(N + 1)] = NullStr /\ sty[Row(N)] = Border)

C5_Witness ==
    \E N \in 0..(nrows - 1) :
        /\ PairPresent(N) /\ prev1.target = Row(N) /\ prev2.target = Row(N)
        /\ ~Hidden(prev2.page, N + 1) /\ prev2.page.sty[Row(N)] = NoAttr
        /\ prev1.page.cls[Row(N + 1)] = RowHide /\ prev1.page.sty[Row(N)] = NullStr
        /\ cls[Row(N + 1)] = NullStr /\ sty[Row(N)] = Border

\* C6: a click on a row result-table-row-N with odd N changes no class, no
\* style and not the menu text, and nothing is thrown.
C6_OddRowClickNoMutation ==
    \A N \in OddIndexes : prev1.target = Row(N) => (SamePage /\ ~fault)

C6_Witness ==
    \E N \in OddIndexes :
        /\ prev1.target = Row(N) /\ N + 1 < nrows
        /\ prev2.target = Row(N - 1) /\ Page # prev2.page

\* C7: a click on an element whose identifier is not of the form
\* result-table-row-<integer> and is not main-menu (no id, another id, the
\* bare prefix "result-table-row-") changes nothing.
C7_ForeignClickNoMutation ==
    prev1.target \in {Bare, Other, NoIdEl} => SamePage

\* C8: the menu text is always "Expand" or "Collapse"; it is "Collapse"
\* exactly after an odd number of clicks on main-menu; every click on
\* main-menu flips it, every other click leaves it alone, and a click on
\* main-menu is possible in every state.
C8_MenuStateMachine ==
    /\ menuText \in {Expand, Collapse}
    /\ (menuText = Collapse <=> menuParity = 1)
    /\ (prev1.target = Menu => menuText # prev1.page.text)
    /\ (prev1.target \notin {Menu, NoTarget} => menuText = prev1.page.text)
    /\ ENABLED Click(Menu)

C8_Witness ==
    /\ prev1.target = Menu /\ prev2.target = Menu
    /\ fault /\ menuText = Expand /\ prev1.page.text = Collapse

\* C9: a click on an even row result-table-row-N whose sibling
\* result-table-row-(N+1) does not exist faults, and no class, style or menu
\* text has changed.
C9_MissingSiblingFault ==
    \A N \in 0..(nrows - 1) :
        (SiblingMissing(N) /\ prev1.target = Row(N)) => (fault /\ SamePage)

C9_Witness ==
    \E N \in 0..(nrows - 1) :
        /\ SiblingMissing(N) /\ prev1.target = Row(N) /\ N >= 2
        /\ fault /\ prev2.target = Row(N - 2) /\ Page # prev2.page

\* the identifiers a complete walk from index i looks up, in order
RECURSIVE WalkFrom(_)
WalkFrom(i) ==
    IF i > 0 THEN <<RowId(i), RowId(i - 1)>> \o WalkFrom(i - 2) ELSE <<>>

\* what a main-menu click leaves of the page before it when it writes exactly
\* the class of the odd rows and the style of the even rows
MenuWritesExactlyPairs ==
    /\ \A n \in OddIndexes :
          cls[Row(n)] = (IF prev1.page.text = Expand THEN NullStr ELSE RowHide)
    /\ \A n \in EvenIndexes :
          sty[Row(n)] = (IF prev1.page.text = Expand THEN Border ELSE NullStr)
    /\ \A e \in Elements :
          /\ (e \notin {Row(n) : n \in OddIndexes} => cls[e] = prev1.page.cls[e])
          /\ (e \notin {Row(n) : n \in EvenIndexes} => sty[e] = prev1.page.sty[e])

\* C10 as stated: on a table of one header row plus result-table-row-0..K,
\* K odd, a main-menu click updates exactly the odd rows 1,3,..,K and their
\* even rows, looks up no row that does not exist and does not fault.
C10_CoverageWithHeader ==
    (HeaderAndPairs /\ prev1.target = Menu) =>
        /\ ~fault
        /\ \A k \in 1..Len(lookups) : getElementById(lookups[k]) # NullEl
        /\ MenuWritesExactlyPairs

\* C10 amended: a main-menu click starts at index (table row count minus
\* one) and steps by -2 down to 1; on a table whose rows are exactly
\* result-table-row-0..K, K odd, with no header row, it looks up K, K-1, ..,
\* 0 in this order, every one of them exists, it updates exactly the class
\* of the odd rows 1,3,..,K and the style of their even rows, and does not
\* fault.
C10_CoverageExactPairs ==
    prev1.target = Menu =>
        /\ (tableRowsLength - 1 > 0 =>
                lookups # <<>> /\ lookups[1] = RowId(tableRowsLength - 1))
        /\ ExactPairs =>
              /\ ~fault
              /\ lookups = WalkFrom(nrows - 1)
              /\ \A k \in 1..Len(lookups) : getElementById(lookups[k]) # NullEl
              /\ MenuWritesExactlyPairs

C10_Witness ==
    /\ ExactPairs /\ nrows >= 4 /\ prev1.target = Menu /\ ~fault
    /\ Len(lookups) = nrows /\ lookups[1] = RowId(nrows - 1)
    /\ prev2.target = Bare /\ sty[Bare] = Border
    /\ Page # prev1.page

\* every present pair is in the same state: one class value on the detail
\* rows, one style value on the summary rows
PairsUniform ==
    \A N, M \in Present :
        (PairPresent(N) /\ PairPresent(M)) =>
            (cls[Row(N + 1)] = cls[Row(M + 1)] /\ sty[Row(N)] = sty[Row(M)])

\* one class value on all detail (odd) rows, one style value on all summary
\* (even) rows
RowsUniform ==
    /\ \A n, m \in OddIndexes : cls[Row(n)] = cls[Row(m)]
    /\ \A n, m \in EvenIndexes : sty[Row(n)] = sty[Row(m)]

\* C11 as stated: after any sequence of row-pair toggles, a main-menu click
\* that completes (does not fault) leaves every detail row with the same
\* class value and every summary row with the same style value.
C11_CompletedMenuClickUniform ==
    (prev1.target = Menu /\ ~fault) => (PairsUniform /\ RowsUniform)

\* C11 amended: on a table whose rows are exactly result-table-row-0..K, K
\* odd, after any sequence of row-pair toggles a main-menu click completes
\* and leaves all row pairs in the same state: every detail row has the same
\* class value and every summary row the same style value.
C11_MenuClickUniform ==
    (prev1.target = Menu /\ ExactPairs) =>
        /\ ~fault
        /\ PairsUniform
        /\ RowsUniform

C11_Witness ==
    /\ ExactPairs /\ nrows >= 4 /\ prev1.target = Menu /\ ~fault
    /\ prev2.target = Row(0)
    /\ prev1.page.cls[Row(1)] # prev1.page.cls[Row(3)]
    /\ prev1.page.sty[Row(0)] # prev1.page.sty[Row(2)]
    /\ PairsUniform

\* the pair of summary row N is in one of the two states the script writes
ValidPair(N) ==
    <<cls[Row(N + 1)], sty[Row(N)]>> \in {<<RowHide, NullStr>>, <<NullStr, Border>>}

\* C12: once a pair has been written by a row-pair toggle or a menu click,
\* (class of row N+1, style of row N) is always ("row-hide", "Null") or
\* ("Null", "border-left: 5px solid green;").
C12_PairStateInvariant ==
    \A N \in touched : ValidPair(N)

\* the page as a click finds it
PageAtClick ==
    [cls |-> cls, sty |-> sty, text |-> menuText, fault |-> FALSE, lookups |-> <<>>]

\* C13: a click on an even row N changes at most the class of row N+1 and
\* the style of row N: every other class and style and the menu text are as
\* before and no loop of the global toggle has run; and for no element do
\* both the row-pair toggle and the global toggle act on one click.
C13_ToggleFrame ==
    /\ \A N \in EvenIndexes :
          prev1.target = Row(N) =>
              /\ \A e \in Elements :
                    /\ (e # Row(N + 1) => cls[e] = prev1.page.cls[e])
                    /\ (e # Row(N) => sty[e] = prev1.page.sty[e])
              /\ menuText = prev1.page.text
              /\ lookups = <<>>
    /\ \A t \in Elements :
          ~(hide_row(PageAtClick, t) # PageAtClick /\ button(PageAtClick, t) # PageAtClick)

C13_Witness ==
    \E N \in EvenIndexes :
        /\ PairPresent(N) /\ PairPresent(2 - N)
        /\ prev1.target = Row(N) /\ prev2.target = Menu
        /\ cls[Row(N + 1)] # prev1.page.cls[Row(N + 1)]
        /\ sty[Row(N)] # prev1.page.sty[Row(N)]
        /\ cls[Row(3 - N)] = NullStr /\ sty[Row(2 - N)] = Border

\* what a second main-menu click, made right after the last one, would have
\* left
SecondMenuClick ==
    ToggleAll([cls |-> sinceMenu.page.cls, sty |-> sinceMenu.page.sty,
               text |-> sinceMenu.page.text, fault |-> FALSE, lookups |-> <<>>])

\* the row classes and styles are those of SecondMenuClick, the menu text is
\* still the one the first menu click left
AgreesWithSecondMenuClick ==
    /\ cls = SecondMenuClick.cls
    /\ sty = SecondMenuClick.sty
    /\ menuText = sinceMenu.page.text
    /\ menuText # SecondMenuClick.text

\* C14 as stated: from the state a completed main-menu click left, clicking
\* every summary row exactly once, in any order, gives the row classes and
\* styles a second main-menu click would have given.
C14_TogglesAgreeAfterCompletedClick ==
    (sinceMenu.ok /\ sinceMenu.clicked = EvenIndexes) => AgreesWithSecondMenuClick

\* C14 amended: on a table whose rows are exactly result-table-row-0..K, K
\* odd, from the state a main-menu click left, clicking every summary row
\* exactly once, in any order, gives the row classes and styles a second
\* main-menu click would have given; only the menu text differs.
C14_TogglesAgree ==
    (ExactPairs /\ sinceMenu.ok /\ sinceMenu.clicked = EvenIndexes) =>
        AgreesWithSecondMenuClick

C14_Witness ==
    /\ ExactPairs /\ nrows >= 4
    /\ sinceMenu.ok /\ sinceMenu.clicked = EvenIndexes
    /\ prev1.target = Row(0) /\ prev2.target = Row(2)
    /\ sinceMenu.page.text = Expand
    /\ cls[Row(1)] = NullStr /\ sty[Row(2)] = Border
    /\ cls # sinceMenu.page.cls

\* the step is a main-menu click that faults: the text is flipped, the fault
\* is at the last lookup, and every row looked up before it carries the value
\* of the direction taken (class on the odd passes, style on the even ones)
FaultingMenuClickStep ==
    (prev1'.target = Menu /\ fault') =>
        /\ menuText' # menuText
        /\ menuText' \in {Expand, Collapse}
        /\ lookups' # <<>>
        /\ getElementById(lookups'[Len(lookups')]) = NullEl
        /\ \A k \in 1..(Len(lookups') - 1) :
              LET e == getElementById(lookups'[k])
              IN  /\ e # NullEl
                  /\ IF k % 2 = 1
                     THEN cls'[e] = (IF menuText = Expand THEN NullStr ELSE RowHide)
                     ELSE sty'[e] = (IF menuText = Expand THEN Border ELSE NullStr)

\* the step is the main-menu click after one that faulted: it takes the other
\* branch, so it writes the text the faulting click found
MenuClickAfterFaultStep ==
    (prev1.target = Menu /\ fault /\ prev1'.target = Menu) =>
        /\ menuText' = prev1.page.text
        /\ (menuText = Expand) # (prev1.page.text = Expand)

\* C15: a main-menu click that faults on a missing row has already flipped
\* the menu text, the rows visited before the fault keep their new class and
\* style, and the next main-menu click runs in the opposite direction.
C15_FaultingToggleNotAtomic ==
    [][FaultingMenuClickStep /\ MenuClickAfterFaultStep]_vars

C15_Witness ==
    /\ prev1.target = Menu /\ prev2.target = Menu /\ fault
    /\ Len(lookups) >= 3
    /\ menuText = Expand /\ prev1.page.text = Collapse /\ prev2.page.text = Expand
    /\ cls[Row(3)] = RowHide /\ prev1.page.cls[Row(3)] = NullStr
    /\ sty[Row(2)] = NullStr /\ prev1.page.sty[Row(2)] = Border

====
